---- MODULE Spec2Model ----
(***************************************************************************)
(* BOMSO back office: organizations, subscription requests and the         *)
(* approval that turns a request into a subscription window.               *)
(*                                                                         *)
(* The repository holds two variants of the same express server:           *)
(*   src/server.js          every handler wrapped in try/catch, saveData    *)
(*                          logs a write error and returns normally         *)
(*   src/unnamed/part_000   no try/catch, saveData lets the write error     *)
(*                          reject the handler's promise                    *)
(* Both keep one global `data` object, re-read from data.json by loadData  *)
(* at the start of every handler and written back whole by saveData.  The  *)
(* import handler assigns `data` instead of loading it.  So `data` is      *)
(* assigned at the start of every synchronous run that reads it, and what  *)
(* it holds across an await is never read: the model keeps its value at    *)
(* the start of a handler's run (seen) and at the JSON.stringify that ends  *)
(* the run (snap), and no variable for `data` in between.                  *)
(*                                                                         *)
(* A handler is an async function.  Its steps are the places where the     *)
(* event loop can run something else:                                      *)
(*   Start      field validation, then loadData (readFile settles,         *)
(*              JSON.parse, data is replaced) and the synchronous code up  *)
(*              to JSON.stringify(data) inside saveData, which runs in the *)
(*              same turn of the event loop as the end of loadData         *)
(*   WriteOpen  fs.writeFile opens data.json with flag 'w' (truncates)     *)
(*   WriteDone  the content is written, the handler answers                *)
(*   WriteFail  the write fails, at the open or after it                   *)
(*   Return     the handler has answered and returns                       *)
(*                                                                         *)
(* Dates: the server's time zone is taken to be UTC, so that the local     *)
(* calendar arithmetic of setDate/setMonth and the UTC text of             *)
(* toISOString speak of the same calendar day.                             *)
(***************************************************************************)
EXTENDS Integers, Sequences, FiniteSets, TLC

VARIABLES
    variant,    \* which of the two server files runs
    now,        \* the last reading of the wall clock, [day, ms]: days since 1970-01-01, ms of the day
    ticks,      \* how many milliseconds have passed between clock readings (bounded)
    nsaves,     \* how many calls that can reach saveData have been received (bounded)
    faults,     \* how many reads and writes of data.json have failed (bounded)
    file,       \* data.json: [state, doc]; state is missing, empty, json or garbage
    committed,  \* the document of the last write that completed successfully
    pc,         \* per handler: idle, saving, writing, done
    req,        \* per handler: the HTTP call it serves
    seen,       \* per handler: the global `data` as its loadData left it
    snap,       \* per handler: JSON.stringify(data), the text handed to fs.writeFile
    resp,       \* per handler: the HTTP status sent (0: none)
    body,       \* per handler: what the response carries
    crashed     \* the process has exited

vars ==
    <<variant, now, ticks, nsaves, faults, file, committed, pc, req, seen, snap, resp,
      body, crashed>>

(***************************************************************************)
(* Bounds of the model.                                                    *)
(***************************************************************************)
MaxSaves == 2

MaxTicks == 1

MaxFaults == 1

MaxReqs == 2

(***************************************************************************)
(* Program constants.                                                      *)
(***************************************************************************)
TrialDays == 7

DaysPerTierMonth == 30

MsPerDay == 86400000

Variants == {"server", "part000"}

Handlers == {1, 2}

OrgCodes == {"A", "B"}

Tiers == {0, -1}

RandSuffixes == {"k3x9qa"}

(***************************************************************************)
(* Dates.  A Date is an instant [day, ms]; its ISO-8601 text               *)
(* (toISOString) is the record [y, mo, d, ms] of the UTC calendar date and *)
(* the millisecond of the day; new Date(text) parses it back.              *)
(***************************************************************************)
NullDate == [y |-> 0, mo |-> 0, d |-> 0, ms |-> 0]

\* MakeDay of ECMAScript: the day number of year y, month m (1-based, may
\* run past 12), day-of-month d (may run past the month's end).
MakeDay(y, m, d) ==
    LET ym  == y + (m - 1) \div 12
        mn  == ((m - 1) % 12) + 1
        yy  == IF mn <= 2 THEN ym - 1 ELSE ym
        era == yy \div 400
        yoe == yy - era * 400
        mp  == IF mn > 2 THEN mn - 3 ELSE mn + 9
        doy == (153 * mp + 2) \div 5
        doe == yoe * 365 + yoe \div 4 - yoe \div 100 + doy
    IN  era * 146097 + doe - 719468 + (d - 1)

\* The calendar date of a day number (YearFromTime, MonthFromTime, DateFromTime).
CivilFromDays(z) ==
    LET z2  == z + 719468
        era == z2 \div 146097
        doe == z2 % 146097
        yoe == (doe - doe \div 1460 + doe \div 36524 - doe \div 146096) \div 365
        doy == doe - (365 * yoe + yoe \div 4 - yoe \div 100)
        mp  == (5 * doy + 2) \div 153
        d   == doy - (153 * mp + 2) \div 5 + 1
        m   == IF mp < 10 THEN mp + 3 ELSE mp - 9
        y   == yoe + era * 400 + (IF m <= 2 THEN 1 ELSE 0)
    IN  [y |-> y, mo |-> m, d |-> d]

\* date.toISOString()
ToISOString(t) ==
    LET c == CivilFromDays(t.day)
    IN  [y |-> c.y, mo |-> c.mo, d |-> c.d, ms |-> t.ms]

\* new Date(isoText)
ParseDate(s) ==
    [day |-> MakeDay(s.y, s.mo, s.d), ms |-> s.ms]

\* date.setDate(date.getDate() + days)
AddDays(t, days) ==
    LET c == CivilFromDays(t.day)
    IN  [day |-> MakeDay(c.y, c.mo, c.d + days), ms |-> t.ms]

\* date.setMonth(date.getMonth() + 1): the same day-of-month in the next
\* month; a day past that month's end runs on into the month after it.
AddMonth(t) ==
    LET c == CivilFromDays(t.day)
    IN  [day |-> MakeDay(c.y, c.mo + 1, c.d), ms |-> t.ms]

\* t1 < t2 on instants
Before(t1, t2) ==
    \/ t1.day < t2.day
    \/ t1.day = t2.day /\ t1.ms < t2.ms

\* the instant one millisecond after t
NextMs(t) ==
    IF t.ms + 1 < MsPerDay
    THEN [day |-> t.day, ms |-> t.ms + 1]
    ELSE [day |-> t.day + 1, ms |-> 0]

\* The clock when the server starts: 2023-11-03T00:00:00.000Z.
StartInstant ==
    [day |-> MakeDay(2023, 11, 3), ms |-> 0]

\* What n successive `new Date()` / Date.now() calls return when the
\* reading before them was t: the clock may have passed to the next
\* millisecond before any one of them.
ClockReads(t, n, mayTick) ==
    {[i \in 1..n |-> IF i < k THEN t ELSE NextMs(t)] :
        k \in IF mayTick THEN 1..(n + 1) ELSE {n + 1}}

(***************************************************************************)
(* The dataset.  JSON.stringify followed by JSON.parse is lossless on the  *)
(* values that occur here (strings, integers, booleans, null, arrays and   *)
(* plain objects of them), so a JSON text is represented by the value it   *)
(* denotes; null and an absent date are both NullDate, a null tier is the  *)
(* string "null".                                                          *)
(***************************************************************************)
EmptyData ==
    [organizations |-> <<>>, requests |-> <<>>]

InactiveSubscription ==
    [active |-> FALSE, startDate |-> NullDate, endDate |-> NullDate, tier |-> "null"]

\* organizations.find(o => o.orgCode === code): the first match, 0 when none
FindOrg(orgs, code) ==
    IF \E i \in 1..Len(orgs) : orgs[i].orgCode = code
    THEN CHOOSE i \in 1..Len(orgs) :
            /\ orgs[i].orgCode = code
            /\ \A j \in 1..(i - 1) : orgs[j].orgCode # code
    ELSE 0

\* requests.findIndex(r => r.id === id): the first match, 0 when none (-1 in the code)
\* (a search that settles on the first request, whatever its id)
FindRequestAny(reqs, id) ==
    IF Len(reqs) > 0 THEN 1 ELSE 0

FindRequest(reqs, id) ==
    IF \E i \in 1..Len(reqs) : reqs[i].id = id
    THEN CHOOSE i \in 1..Len(reqs) :
            /\ reqs[i].id = id
            /\ \A j \in 1..(i - 1) : reqs[j].id # id
    ELSE 0

\* 'REQ-' + Date.now() + '-' + Math.random().toString(36).substring(2, 8)
MakeId(t, rnd) ==
    [at |-> t, rnd |-> rnd]

\* request.selectedTier === 0 ? 7 : request.selectedTier * 30
SubscriptionDays(tier) ==
    IF tier = 0 THEN TrialDays ELSE tier * DaysPerTierMonth

\* request.selectedTier === 0 ? 'trial' : request.selectedTier + 'months'
TierLabel(tier) ==
    IF tier = 0 THEN "trial" ELSE ToString(tier) \o "months"

(***************************************************************************)
(* The handlers' synchronous code between `await loadData()` and the       *)
(* JSON.stringify of saveData.  d is `data` as loadData left it, c the     *)
(* call, ts the clock readings of the run, v the variant.  Each yields     *)
(*   data    `data` afterwards                                             *)
(*   save    whether saveData is reached                                   *)
(*   status  the status answered: at once when save is FALSE, after the    *)
(*           save otherwise                                                *)
(*   body    the response's content                                        *)
(*   last    the last clock reading made                                    *)
(***************************************************************************)
NoBody == "none"

Outcome(d, save, status, b, last) ==
    [data |-> d, save |-> save, status |-> status, body |-> b, last |-> last]

\* POST /api/organizations
NewOrg(f, t) ==
    [orgCode |-> f.orgCode, orgName |-> f.orgName, owner |-> f.owner,
     phone |-> f.phone, email |-> f.email, udc |-> f.udc,
     subscription |-> InactiveSubscription,
     continueEnabled |-> FALSE,
     createdAt |-> ToISOString(t)]

ConflictStatus(v) ==
    IF v = "server" THEN 409 ELSE 400

CreateBody(d, c, ts, v) ==
    IF FindOrg(d.organizations, c.f.orgCode) # 0
    THEN Outcome(d, FALSE, ConflictStatus(v), NoBody, ts[1])
    ELSE LET newOrg == NewOrg(c.f, ts[1])
         IN  Outcome([d EXCEPT !.organizations = Append(@, newOrg)],
                     TRUE, 201, newOrg, ts[1])

\* POST /api/organizations/:orgCode/enable
\* (an enable that asks for an active subscription)
EnableBodyActiveOnly(d, c, ts, v) ==
    LET i == FindOrg(d.organizations, c.f.orgCode)
    IN  IF i = 0
        THEN Outcome(d, FALSE, 404, NoBody, ts[1])
        ELSE IF ~d.organizations[i].subscription.active
        THEN Outcome(d, FALSE, 400, NoBody, ts[1])
        ELSE Outcome([d EXCEPT !.organizations[i].continueEnabled = TRUE],
                     TRUE, 200, NoBody, ts[1])

EnableBody(d, c, ts, v) ==
    LET i == FindOrg(d.organizations, c.f.orgCode)
    IN  IF i = 0
        THEN Outcome(d, FALSE, 404, NoBody, ts[1])
        ELSE Outcome([d EXCEPT !.organizations[i].continueEnabled = TRUE],
                     TRUE, 200, NoBody, ts[1])

\* POST /api/organizations/:orgCode/extend
ExtendedEndDate(endDate) ==
    ToISOString(AddMonth(ParseDate(endDate)))

\* (the extend handler without its check of the subscription)
ExtendBodyUnguarded(d, c, ts, v) ==
    LET i == FindOrg(d.organizations, c.f.orgCode)
    IN  IF i = 0
        THEN Outcome(d, FALSE, 404, NoBody, ts[1])
        ELSE Outcome(
               [d EXCEPT !.organizations[i].subscription.endDate = ExtendedEndDate(@),
                         !.organizations[i].subscription.active = TRUE],
               TRUE, 200, NoBody, ts[1])

ExtendBody(d, c, ts, v) ==
    LET i == FindOrg(d.organizations, c.f.orgCode)
    IN  IF i = 0
        THEN Outcome(d, FALSE, 404, NoBody, ts[1])
        ELSE LET sub == d.organizations[i].subscription
             IN  IF ~sub.active \/ sub.endDate = NullDate
                 THEN Outcome(d, FALSE, 400, NoBody, ts[1])
                 ELSE Outcome(
                        [d EXCEPT !.organizations[i].subscription.endDate =
                                      ExtendedEndDate(@)],
                        TRUE, 200, NoBody, ts[1])

\* GET /api/requests?status=...
ListBody(d, c, ts, v) ==
    LET listed == IF c.status # ""
                  THEN SelectSeq(d.requests, LAMBDA r : r.status = c.status)
                  ELSE d.requests
    IN  Outcome(d, FALSE, 200, listed, ts[1])

\* GET /api/export
ExportBody(d, c, ts, v) ==
    Outcome(d, FALSE, 200, d, ts[1])

\* POST /api/requests
NewRequest(f, rnd, tId, tStamp) ==
    [id |-> MakeId(tId, rnd),
     orgCode |-> f.orgCode, orgName |-> f.orgName, owner |-> f.owner,
     phone |-> f.phone, email |-> f.email,
     selectedTier |-> f.selectedTier, selectedPrice |-> f.selectedPrice,
     timestamp |-> ToISOString(tStamp),
     status |-> "pending",
     approvedAt |-> NullDate, rejectedAt |-> NullDate]

SubmitBody(d, c, ts, v) ==
    LET newReq == NewRequest(c.f, c.rnd, ts[1], ts[2])
    IN  Outcome([d EXCEPT !.requests = Append(@, newReq)],
                TRUE, 201, newReq.id, ts[2])

\* POST /api/requests/:id/approve
ApprovedSubscription(tier, tStart, tEnd) ==
    [active |-> TRUE,
     startDate |-> ToISOString(tStart),
     endDate |-> ToISOString(AddDays(tEnd, SubscriptionDays(tier))),
     tier |-> TierLabel(tier)]

\* (the status set, the timestamp forgotten)
MarkApprovedUnstamped(r, t) ==
    [r EXCEPT !.status = "approved"]

MarkApproved(r, t) ==
    [r EXCEPT !.status = "approved", !.approvedAt = ToISOString(t)]

\* (an approve that adds the days to a window still active, keeping its start)
ApproveBodyExtending(d, c, ts, v) ==
    LET i == FindRequest(d.requests, c.id)
    IN  IF i = 0
        THEN Outcome(d, FALSE, 404, NoBody, ts[1])
        ELSE LET request == MarkApproved(d.requests[i], ts[1])
                 d1 == [d EXCEPT !.requests[i] = request]
                 j  == FindOrg(d.organizations, request.orgCode)
             IN  IF j = 0
                 THEN Outcome(d1, TRUE, 200, NoBody, ts[1])
                 ELSE LET prev == d.organizations[j].subscription
                          fresh == ApprovedSubscription(request.selectedTier, ts[2], ts[3])
                      IN  Outcome(
                            [d1 EXCEPT
                               !.organizations[j].subscription =
                                   IF prev.active
                                   THEN [fresh EXCEPT
                                           !.startDate = prev.startDate,
                                           !.endDate = ToISOString(AddDays(ParseDate(prev.endDate),
                                                           SubscriptionDays(request.selectedTier)))]
                                   ELSE fresh,
                               !.organizations[j].continueEnabled = TRUE],
                            TRUE, 200, NoBody, ts[3])

ApproveBody(d, c, ts, v) ==
    LET i == FindRequest(d.requests, c.id)
    IN  IF i = 0
        THEN Outcome(d, FALSE, 404, NoBody, ts[1])
        ELSE LET request == MarkApproved(d.requests[i], ts[1])
                 d1 == [d EXCEPT !.requests[i] = request]
                 j  == FindOrg(d.organizations, request.orgCode)
             IN  IF j = 0
                 THEN Outcome(d1, TRUE, 200, NoBody, ts[1])
                 ELSE Outcome(
                        [d1 EXCEPT
                           !.organizations[j].subscription =
                               ApprovedSubscription(request.selectedTier, ts[2], ts[3]),
                           !.organizations[j].continueEnabled = TRUE],
                        TRUE, 200, NoBody, ts[3])

\* POST /api/requests/:id/reject
MarkRejected(r, t) ==
    [r EXCEPT !.status = "rejected", !.rejectedAt = ToISOString(t)]

RejectBody(d, c, ts, v) ==
    LET i == FindRequest(d.requests, c.id)
    IN  IF i = 0
        THEN Outcome(d, FALSE, 404, NoBody, ts[1])
        ELSE Outcome([d EXCEPT !.requests[i] = MarkRejected(@, ts[1])],
                     TRUE, 200, NoBody, ts[1])

HandlerBody(d, c, ts, v) ==
    CASE c.op = "create"  -> CreateBody(d, c, ts, v)
      [] c.op = "enable"  -> EnableBody(d, c, ts, v)
      [] c.op = "extend"  -> ExtendBody(d, c, ts, v)
      [] c.op = "list"    -> ListBody(d, c, ts, v)
      [] c.op = "export"  -> ExportBody(d, c, ts, v)
      [] c.op = "submit"  -> SubmitBody(d, c, ts, v)
      [] c.op = "approve" -> ApproveBody(d, c, ts, v)
      [] c.op = "reject"  -> RejectBody(d, c, ts, v)

\* how many times the handler's synchronous run may read the clock
NumClockReads(c) ==
    CASE c.op = "submit"  -> 2
      [] c.op = "approve" -> 3
      [] OTHER            -> 1

(***************************************************************************)
(* The HTTP calls the model sends.                                         *)
(***************************************************************************)
NoInstant == [day |-> 0, ms |-> 0]

NoId == MakeId(NoInstant, "")

\* an id no request carries
BogusId == MakeId(NoInstant, "zzzzzz")

\* An uploaded document: whether each top-level key is there, whether its
\* value is null, and the arrays the keys hold otherwise.
NoDoc ==
    [hasOrganizations |-> FALSE, hasRequests |-> FALSE,
     nullOrganizations |-> FALSE, nullRequests |-> FALSE,
     organizations |-> <<>>, requests |-> <<>>]

Fields(code, name, owner, phone, hasTier, tier) ==
    [orgCode |-> code, orgName |-> name, owner |-> owner, phone |-> phone,
     email |-> "", udc |-> "",
     hasTier |-> hasTier, selectedTier |-> tier, selectedPrice |-> 0]

Call(op, f, id, status, doc, rnd) ==
    [op |-> op, f |-> f, id |-> id, status |-> status, doc |-> doc, rnd |-> rnd]

NoCall == Call("none", Fields("", "", "", "", FALSE, 0), NoId, "", NoDoc, "")

OrgCall(op, code) ==
    Call(op, Fields(code, "", "", "", FALSE, 0), NoId, "", NoDoc, "")

IdCall(op, id) ==
    Call(op, Fields("", "", "", "", FALSE, 0), id, "", NoDoc, "")

CreateCalls ==
    {Call("create", Fields(code, name, "Owner", "0780", FALSE, 0), NoId, "", NoDoc, "") :
        code \in OrgCodes, name \in {"Org"}}
    \cup {Call("create", Fields("A", "", "Owner", "0780", FALSE, 0), NoId, "", NoDoc, "")}

SubmitCalls ==
    {Call("submit", Fields(code, "Org", "Owner", "0780", TRUE, tier), NoId, "", NoDoc, rnd) :
        code \in OrgCodes, tier \in Tiers, rnd \in RandSuffixes}
    \cup {Call("submit", Fields("A", "Org", "Owner", "0780", FALSE, 0), NoId, "", NoDoc, rnd) :
        rnd \in RandSuffixes}

\* the ids a caller can hold: those of the ledger
KnownIds ==
    {committed.requests[i].id : i \in 1..Len(committed.requests)}

ImportedOrg ==
    [orgCode |-> "B", orgName |-> "Imported", owner |-> "Owner", phone |-> "0780",
     email |-> "", udc |-> "",
     subscription |-> InactiveSubscription,
     continueEnabled |-> FALSE,
     createdAt |-> ToISOString(StartInstant)]

\* res.json(data): the JSON document of a dataset
DocOf(d) ==
    [hasOrganizations |-> TRUE, hasRequests |-> TRUE,
     nullOrganizations |-> FALSE, nullRequests |-> FALSE,
     organizations |-> d.organizations, requests |-> d.requests]

\* the document GET /api/export answers with, its loadData having given d
Exported(d) ==
    DocOf(ExportBody(d,
                     Call("export", Fields("", "", "", "", FALSE, 0), NoId, "", NoDoc, ""),
                     <<now>>, variant).body)

\* the documents uploaded: two that lack a key, one whose organizations key
\* holds null, a backup made elsewhere, and the document an export call has
\* just returned
ImportDocs ==
    {[NoDoc EXCEPT !.hasRequests = TRUE],
     [NoDoc EXCEPT !.hasOrganizations = TRUE, !.organizations = <<ImportedOrg>>],
     [NoDoc EXCEPT !.hasOrganizations = TRUE, !.nullOrganizations = TRUE,
                   !.hasRequests = TRUE],
     DocOf([organizations |-> <<ImportedOrg>>, requests |-> <<>>]),
     Exported(IF file.state = "json" THEN file.doc ELSE EmptyData)}

ImportCalls ==
    {Call("import", Fields("", "", "", "", FALSE, 0), NoId, "", doc, "") : doc \in ImportDocs}

Calls ==
    CreateCalls
    \cup SubmitCalls
    \cup {OrgCall(op, code) : op \in {"enable", "extend"}, code \in OrgCodes}
    \cup {IdCall(op, id) : op \in {"approve", "reject"}, id \in KnownIds \cup {BogusId}}
    \cup {Call("list", Fields("", "", "", "", FALSE, 0), NoId, status, NoDoc, "") :
            status \in {"", "pending"}}
    \cup {Call("export", Fields("", "", "", "", FALSE, 0), NoId, "", NoDoc, "")}

\* if (!orgCode || !orgName || !owner || !phone)
RequiredPresent(f) ==
    f.orgCode # "" /\ f.orgName # "" /\ f.owner # "" /\ f.phone # ""

\* the check a handler makes before it loads anything
Accepted(c) ==
    CASE c.op = "create" -> RequiredPresent(c.f)
      [] c.op = "submit" -> RequiredPresent(c.f) /\ c.f.hasTier
      [] OTHER           -> TRUE

\* (only the organizations key looked at)
ImportValidOrganizationsOnly(doc) ==
    doc.hasOrganizations /\ ~doc.nullOrganizations

\* if (!imported.organizations || !imported.requests) throw: a key that is
\* missing (undefined) or holds null is falsy, an array, even an empty one,
\* is truthy
ImportValid(doc) ==
    /\ doc.hasOrganizations /\ ~doc.nullOrganizations
    /\ doc.hasRequests /\ ~doc.nullRequests

\* data = imported
ImportedData(doc) ==
    [organizations |-> doc.organizations, requests |-> doc.requests]

(***************************************************************************)
(* State and steps.                                                        *)
(***************************************************************************)
\* What data.json can hold when the server starts, left by an earlier run:
\* organization A, registered the day before, with its request for three
\* months, still pending (SeedData) or approved then (SeedActive).
SeedInstant ==
    [day |-> MakeDay(2023, 11, 2), ms |-> 0]

SeedData ==
    LET f == Fields("A", "Org", "Owner", "0780", TRUE, 3)
    IN  [organizations |-> <<NewOrg(f, SeedInstant)>>,
         requests |-> <<NewRequest(f, "k3x9qa", SeedInstant, SeedInstant)>>]

SeedActive ==
    ApproveBody(SeedData, IdCall("approve", SeedData.requests[1].id),
                <<SeedInstant, SeedInstant, SeedInstant>>, "server").data

SeedDocs == {EmptyData, SeedData, SeedActive}

MissingFile == [state |-> "missing", doc |-> EmptyData]

TruncatedFile == [state |-> "empty", doc |-> EmptyData]

GarbageFile == [state |-> "garbage", doc |-> EmptyData]

JsonFile(d) == [state |-> "json", doc |-> d]

Init ==
    /\ variant \in Variants
    /\ now = StartInstant
    /\ ticks = 0
    /\ nsaves = 0
    /\ faults = 0
    /\ \E d \in SeedDocs :
        /\ file = IF d = EmptyData THEN MissingFile ELSE JsonFile(d)
        /\ committed = d
    /\ pc = [h \in Handlers |-> "idle"]
    /\ req = [h \in Handlers |-> NoCall]
    /\ seen = [h \in Handlers |-> EmptyData]
    /\ snap = [h \in Handlers |-> EmptyData]
    /\ resp = [h \in Handlers |-> 0]
    /\ body = [h \in Handlers |-> NoBody]
    /\ crashed = FALSE

\* No handler is between its answer and its return: that stretch is part
\* of one run of the event loop, nothing else is scheduled inside it.
Quiet ==
    \A h \in Handlers : pc[h] # "done"

\* Handlers are interchangeable: a call is served by the first idle one.
Free(h) ==
    /\ ~crashed
    /\ Quiet
    /\ pc[h] = "idle"
    /\ \A g \in Handlers : pc[g] = "idle" => ~(g < h)

\* the calls that can reach saveData
Saves(c) ==
    c.op \in {"create", "enable", "extend", "submit", "approve", "reject", "import"}

\* the model's caps: on the calls that may save, on the ledger's length
RoomFor(c) ==
    /\ Saves(c) => nsaves < MaxSaves
    /\ c.op = "submit" => Len(committed.requests) < MaxReqs

\* A call arrives whose required fields are missing: 400 before any load.
Refuse(h) ==
    /\ Free(h)
    /\ \E c \in Calls :
        /\ ~Accepted(c)
        /\ req' = [req EXCEPT ![h] = c]
    /\ pc' = [pc EXCEPT ![h] = "done"]
    /\ resp' = [resp EXCEPT ![h] = 400]
    /\ UNCHANGED <<variant, now, ticks, nsaves, faults, file, committed, seen, snap, body, crashed>>

\* loadData: any failure of the read (no file, an I/O error, a text that
\* JSON.parse rejects) leaves `data` empty.
LoadResult(f, readOk) ==
    IF readOk /\ f.state = "json" THEN f.doc ELSE EmptyData

\* A call arrives and passes the field check; loadData replaces `data`
\* by what the read of data.json gives; the handler's code runs on, to its
\* answer (an early return, or a handler that only reads) or to saveData's
\* JSON.stringify(data).  From the end of loadData on this is one run of the
\* event loop, and the prefix touches nothing shared, so the call is taken
\* to arrive when its read settles.
Serve(h, c) ==
    /\ Accepted(c)
    /\ RoomFor(c)
    /\ req' = [req EXCEPT ![h] = c]
    /\ nsaves' = IF Saves(c) THEN nsaves + 1 ELSE nsaves
    /\ \E readOk \in IF faults < MaxFaults THEN BOOLEAN ELSE {TRUE} :
        /\ seen' = [seen EXCEPT ![h] = LoadResult(file, readOk)]
        /\ faults' = IF readOk THEN faults ELSE faults + 1
    /\ \E ts \in ClockReads(now, NumClockReads(c), ticks < MaxTicks) :
        LET out == HandlerBody(seen'[h], c, ts, variant)
        IN  /\ now' = out.last
            /\ ticks' = IF out.last = now THEN ticks ELSE ticks + 1
            /\ body' = [body EXCEPT ![h] = out.body]
            /\ IF out.save
               THEN /\ snap' = [snap EXCEPT ![h] = out.data]
                    /\ pc' = [pc EXCEPT ![h] = "saving"]
                    /\ resp' = resp
               ELSE /\ snap' = snap
                    /\ pc' = [pc EXCEPT ![h] = "done"]
                    /\ resp' = [resp EXCEPT ![h] = out.status]
    /\ UNCHANGED <<variant, file, committed, crashed>>

Start(h) ==
    /\ Free(h)
    /\ \E c \in Calls : Serve(h, c)

\* the same, of a client that only registers organizations
StartCreate(h) ==
    /\ Free(h)
    /\ \E c \in CreateCalls : Serve(h, c)

\* POST /api/import: the upload is parsed and checked; `data = imported`
\* without a load, then saveData.
Import(h) ==
    /\ Free(h)
    /\ nsaves < MaxSaves
    /\ \E c \in ImportCalls :
        /\ req' = [req EXCEPT ![h] = c]
        /\ IF ImportValid(c.doc)
           THEN /\ snap' = [snap EXCEPT ![h] = ImportedData(c.doc)]
                /\ pc' = [pc EXCEPT ![h] = "saving"]
                /\ resp' = resp
           ELSE /\ snap' = snap
                /\ pc' = [pc EXCEPT ![h] = "done"]
                /\ resp' = [resp EXCEPT ![h] = 400]
    /\ nsaves' = nsaves + 1
    /\ UNCHANGED <<variant, seen, now, ticks, faults, file, committed, body, crashed>>

\* fs.writeFile opens data.json with flag 'w': the file is truncated.
WriteOpen(h) ==
    /\ ~crashed
    /\ Quiet
    /\ pc[h] = "saving"
    /\ file' = TruncatedFile
    /\ pc' = [pc EXCEPT ![h] = "writing"]
    /\ UNCHANGED <<variant, seen, now, ticks, nsaves, faults, committed, req, snap, resp, body, crashed>>

\* the status of a call whose saveData has returned
OkStatus(c) ==
    IF c.op \in {"create", "submit"} THEN 201 ELSE 200

\* What data.json holds once the text is written at offset 0.  Over an empty
\* file it is the text; over what another writer has put there since the
\* open, it is the text followed by whatever of the other, longer text sticks
\* out: either the text (not shorter) or no JSON at all (shorter).
Written(f, text) ==
    IF f.state \in {"json", "garbage"}
    THEN {JsonFile(text), GarbageFile}
    ELSE {JsonFile(text)}

\* (a save that compares the file with the snapshot loaded and gives up, 409,
\* when another call has written in between)
WriteDoneIfUnchanged(h) ==
    /\ ~crashed
    /\ Quiet
    /\ pc[h] = "writing"
    /\ IF file.state = "json" /\ committed # seen[h]
       THEN /\ file' = file
            /\ committed' = committed
            /\ resp' = [resp EXCEPT ![h] = 409]
       ELSE /\ \E f \in Written(file, snap[h]) :
                /\ file' = f
                /\ committed' = IF f.state = "json" THEN snap[h] ELSE committed
            /\ resp' = [resp EXCEPT ![h] = OkStatus(req[h])]
    /\ pc' = [pc EXCEPT ![h] = "done"]
    /\ UNCHANGED <<variant, seen, now, ticks, nsaves, faults, req, snap, body, crashed>>

\* fs.writeFile settles: the text is in the file, saveData returns, the
\* handler answers.
WriteDone(h) ==
    /\ ~crashed
    /\ Quiet
    /\ pc[h] = "writing"
    /\ \E f \in Written(file, snap[h]) :
        /\ file' = f
        /\ committed' = IF f.state = "json" THEN snap[h] ELSE committed
    /\ pc' = [pc EXCEPT ![h] = "done"]
    /\ resp' = [resp EXCEPT ![h] = OkStatus(req[h])]
    /\ UNCHANGED <<variant, seen, now, ticks, nsaves, faults, req, snap, body, crashed>>

\* What a failed write makes of the call.  server.js: saveData catches and
\* logs, the handler goes on to answer success.  part_000: saveData throws;
\* only the import handler has a try around it (400), in every other handler
\* the rejection is unhandled and no answer is sent.
FailedSaveStatus(v, c) ==
    IF v = "server"
    THEN OkStatus(c)
    ELSE IF c.op = "import" THEN 400 ELSE 0

\* An unhandled rejection ends the process or only logs a warning, as the
\* Node version and its --unhandled-rejections mode have it.
MayCrash(v, c) ==
    IF v = "part000" /\ c.op # "import" THEN BOOLEAN ELSE {FALSE}

\* fs.writeFile fails: at the open (the file is as it was) or after it (the
\* file stays truncated).
WriteFail(h) ==
    /\ ~crashed
    /\ Quiet
    /\ pc[h] \in {"saving", "writing"}
    /\ faults < MaxFaults
    /\ faults' = faults + 1
    /\ pc' = [pc EXCEPT ![h] = "done"]
    /\ resp' = [resp EXCEPT ![h] = FailedSaveStatus(variant, req[h])]
    /\ crashed' \in MayCrash(variant, req[h])
    /\ UNCHANGED <<variant, seen, now, ticks, nsaves, file, committed, req, snap, body>>

\* The handler returns: its call, its locals and its response are gone.
Return(h) ==
    /\ ~crashed
    /\ pc[h] = "done"
    /\ pc' = [pc EXCEPT ![h] = "idle"]
    /\ req' = [req EXCEPT ![h] = NoCall]
    /\ seen' = [seen EXCEPT ![h] = EmptyData]
    /\ snap' = [snap EXCEPT ![h] = EmptyData]
    /\ resp' = [resp EXCEPT ![h] = 0]
    /\ body' = [body EXCEPT ![h] = NoBody]
    /\ UNCHANGED <<variant, now, ticks, nsaves, faults, file, committed, crashed>>

Next ==
    \/ \E h \in Handlers : Refuse(h)
    \/ \E h \in Handlers : Start(h)
    \/ \E h \in Handlers : Import(h)
    \/ \E h \in Handlers : WriteOpen(h)
    \/ \E h \in Handlers : WriteDone(h)
    \/ \E h \in Handlers : WriteFail(h)
    \/ \E h \in Handlers : Return(h)

Spec == Init /\ [][Next]_vars

\* The runs in which every call is a POST /api/organizations.
NextCreates ==
    \/ \E h \in Handlers : StartCreate(h)
    \/ \E h \in Handlers : WriteOpen(h)
    \/ \E h \in Handlers : WriteDone(h)
    \/ \E h \in Handlers : WriteFail(h)
    \/ \E h \in Handlers : Return(h)

SpecCreates == Init /\ [][NextCreates]_vars

(***************************************************************************)
(* Steps of one handler, as the properties below speak of them.            *)
(***************************************************************************)
\* handler h takes a call of kind op and runs to its first await or answer
Runs(h, op) ==
    pc[h] = "idle" /\ pc'[h] # "idle" /\ req'[h].op = op

\* handler h answers a call that had reached saveData
AnswersAfterSave(h) ==
    pc[h] \in {"saving", "writing"} /\ pc'[h] = "done"

\* handler h answers after its write completed
AnswersWritten(h) ==
    pc[h] = "writing" /\ pc'[h] = "done" /\ faults' = faults

\* handler h answers after its write failed
AnswersFailedWrite(h) ==
    AnswersAfterSave(h) /\ faults' = faults + 1

TerminalStatus == {"approved", "rejected"}

IsError(status) == status >= 400

\* how many requests of a ledger carry the id
CountId(reqs, id) ==
    Cardinality({i \in 1..Len(reqs) : reqs[i].id = id})

\* how many organizations of a registry carry the code
CountCode(orgs, code) ==
    Cardinality({i \in 1..Len(orgs) : orgs[i].orgCode = code})

\* what GET /api/requests returns from data.json as it is
Listed(f) ==
    ListBody(LoadResult(f, TRUE), Call("list", NoCall.f, NoId, "", NoDoc, ""),
             <<now>>, variant).body

(***************************************************************************)
(* C1.  Request status is monotonic: an approve or a reject that meets a   *)
(* request already approved or rejected leaves its status as it is, and a  *)
(* reject of a request that is not pending answers an error.               *)
(***************************************************************************)
C1_StatusMonotonic ==
    [][\A h \in Handlers :
        (Runs(h, "approve") \/ Runs(h, "reject")) =>
            LET old == seen'[h].requests
                i   == FindRequest(old, req'[h].id)
            IN  (i # 0 /\ old[i].status \in TerminalStatus) =>
                    /\ pc'[h] = "saving" => snap'[h].requests[i].status = old[i].status
                    /\ req'[h].op = "reject" => pc'[h] = "done" /\ IsError(resp'[h])
      ]_vars

(***************************************************************************)
(* C2.  A second approve of an approved request answers an error and       *)
(* leaves the request's status and approvedAt unchanged.                   *)
(***************************************************************************)
C2_SecondApproveFails ==
    [][\A h \in Handlers :
        Runs(h, "approve") =>
            LET old == seen'[h].requests
                i   == FindRequest(old, req'[h].id)
                new == IF pc'[h] = "saving" THEN snap'[h].requests ELSE old
            IN  (i # 0 /\ old[i].status = "approved") =>
                    /\ pc'[h] = "done"
                    /\ IsError(resp'[h])
                    /\ new[i].status = "approved"
                    /\ new[i].approvedAt = old[i].approvedAt
      ]_vars

\* a subscription window as the data model requires it
WellFormedSubscription(sub) ==
    sub.active =>
        /\ sub.startDate # NullDate
        /\ sub.endDate # NullDate
        /\ Before(ParseDate(sub.startDate), ParseDate(sub.endDate))

(***************************************************************************)
(* C3.  In every persisted state, an organization whose subscription is    *)
(* active has both dates, and its endDate is after its startDate.          *)
(***************************************************************************)
C3_ActiveWindowWellFormed ==
    \A i \in 1..Len(committed.organizations) :
        WellFormedSubscription(committed.organizations[i].subscription)

\* an active window of exactly `days` days under the given tier label
ExactWindow(sub, days, label) ==
    /\ sub.active
    /\ sub.tier = label
    /\ ParseDate(sub.endDate) =
         [day |-> ParseDate(sub.startDate).day + days, ms |-> ParseDate(sub.startDate).ms]

(***************************************************************************)
(* C4.  An approve of a pending request whose organization exists makes    *)
(* the subscription active with endDate exactly 7 days after startDate and *)
(* tier "trial" for tier 0, exactly 30*N days and "<N>months" for a tier   *)
(* N > 0, and sets continueEnabled.                                        *)
(***************************************************************************)
C4_ApprovalWindowExact ==
    [][\A h \in Handlers :
        Runs(h, "approve") =>
            LET d == seen'[h]
                i == FindRequest(d.requests, req'[h].id)
                j == IF i = 0 THEN 0 ELSE FindOrg(d.organizations, d.requests[i].orgCode)
            IN  (i # 0 /\ j # 0 /\ d.requests[i].status = "pending"
                       /\ d.requests[i].selectedTier >= 0) =>
                    LET n   == d.requests[i].selectedTier
                        org == snap'[h].organizations[j]
                    IN  /\ pc'[h] = "saving"
                        /\ org.continueEnabled
                        /\ IF n = 0
                           THEN ExactWindow(org.subscription, 7, "trial")
                           ELSE ExactWindow(org.subscription, 30 * n,
                                            ToString(n) \o "months")
      ]_vars

(***************************************************************************)
(* C5.  Organization codes stay unique: with no storage fault in the run,  *)
(* a create that reports success has registered a code that was not        *)
(* registered before (of the creates of one code at most one succeeds),    *)
(* and the registry then holds exactly one record of it, also when two     *)
(* creates overlap.                                                        *)
(***************************************************************************)
C5_CodesUnique ==
    [][\A h \in Handlers :
        (AnswersWritten(h) /\ req[h].op = "create" /\ resp'[h] = 201 /\ faults = 0) =>
            /\ CountCode(committed.organizations, req[h].f.orgCode) = 0
            /\ CountCode(committed'.organizations, req[h].f.orgCode) = 1
      ]_vars

\* a ledger entry as submitted: pending, the supplied fields unchanged
AsSubmitted(r, f) ==
    /\ r.status = "pending"
    /\ r.orgCode = f.orgCode /\ r.orgName = f.orgName /\ r.owner = f.owner
    /\ r.phone = f.phone /\ r.email = f.email
    /\ r.selectedTier = f.selectedTier

(***************************************************************************)
(* C6.  Once a valid submit has returned its id, list() holds exactly one  *)
(* request with that id, pending and with the supplied fields, and still   *)
(* holds every request that was there before.                              *)
(***************************************************************************)
C6_SubmitThenList ==
    [][\A h \in Handlers :
        (AnswersAfterSave(h) /\ req[h].op = "submit" /\ resp'[h] = 201
            /\ req[h].f.selectedTier >= 0) =>
            LET listed == Listed(file')
            IN  /\ CountId(listed, body[h]) = 1
                /\ \A i \in 1..Len(listed) :
                        listed[i].id = body[h] => AsSubmitted(listed[i], req[h].f)
                /\ \A k \in 1..Len(committed.requests) :
                        \E i \in 1..Len(listed) : listed[i] = committed.requests[k]
      ]_vars

(***************************************************************************)
(* C7.  A load that races a save sees the fully old or the fully new       *)
(* persisted state: what a handler works on is the last committed document *)
(* or a document being written, never an empty or truncated one.           *)
(***************************************************************************)
C7_LoadSeesOldOrNew ==
    [][\A h \in Handlers :
        (pc[h] = "idle" /\ pc'[h] # "idle" /\ req'[h].op # "import"
            /\ Accepted(req'[h]) /\ faults' = faults) =>
            \/ seen'[h] = committed
            \/ \E g \in Handlers : pc[g] \in {"saving", "writing"} /\ seen'[h] = snap[g]
      ]_vars

(***************************************************************************)
(* C8.  When the save of a call fails, the call answers an error (neither  *)
(* success nor nothing) and the process keeps serving.                     *)
(***************************************************************************)
C8_WriteFailureReported ==
    [][\A h \in Handlers :
        AnswersFailedWrite(h) => IsError(resp'[h]) /\ ~crashed'
      ]_vars

\* every record of the old document is in the new one, requests in place
KeepsRecords(old, new) ==
    /\ \A i \in 1..Len(old.organizations) :
            CountCode(new.organizations, old.organizations[i].orgCode) >= 1
    /\ Len(old.requests) <= Len(new.requests)
    /\ \A i \in 1..Len(old.requests) : new.requests[i].id = old.requests[i].id

(***************************************************************************)
(* C9.  The core operations never remove a record: every organization and  *)
(* every request of a persisted state is in every later one, the requests  *)
(* in their order of insertion.                                            *)
(***************************************************************************)
C9_RecordsNeverRemoved ==
    [][\A h \in Handlers :
        (AnswersWritten(h) /\ req[h].op # "import") => KeepsRecords(committed, committed')
      ]_vars

\* the calendar with month-end clamping
DaysInMonth(y, m) ==
    MakeDay(y, m + 1, 1) - MakeDay(y, m, 1)

Min(a, b) == IF a <= b THEN a ELSE b

ClampedNextMonth(s) ==
    LET y  == IF s.mo = 12 THEN s.y + 1 ELSE s.y
        mo == IF s.mo = 12 THEN 1 ELSE s.mo + 1
    IN  [y |-> y, mo |-> mo, d |-> Min(s.d, DaysInMonth(y, mo)), ms |-> s.ms]

(***************************************************************************)
(* C10.  extendOneMonth moves endDate to the next calendar month, same     *)
(* time of day, on day min(old day, last day of that month): never into    *)
(* the month after.                                                        *)
(***************************************************************************)
C10_ExtendClampsToMonthEnd ==
    [][\A h \in Handlers :
        (Runs(h, "extend") /\ pc'[h] = "saving") =>
            LET j == FindOrg(seen'[h].organizations, req'[h].f.orgCode)
            IN  snap'[h].organizations[j].subscription.endDate =
                    ClampedNextMonth(seen'[h].organizations[j].subscription.endDate)
      ]_vars

(***************************************************************************)
(* C11.  An extend that finds its organization with a subscription that is *)
(* not active or has no endDate answers 400 and never reaches saveData:    *)
(* nothing is handed to the write, the record and data.json stay as they   *)
(* are, and the subscription is not made active.                           *)
(***************************************************************************)
C11_ExtendInactiveRefused ==
    \A h \in Handlers :
        (pc[h] # "idle" /\ req[h].op = "extend") =>
            LET j == FindOrg(seen[h].organizations, req[h].f.orgCode)
            IN  (j # 0 /\ (~seen[h].organizations[j].subscription.active
                            \/ seen[h].organizations[j].subscription.endDate = NullDate)) =>
                    /\ pc[h] = "done"
                    /\ resp[h] = 400
                    /\ snap[h] = EmptyData

\* an extend of an organization without active subscription has been answered
C11_Reached ==
    \E h \in Handlers :
        /\ pc[h] = "done" /\ req[h].op = "extend" /\ resp[h] = 400
        /\ LET j == FindOrg(seen[h].organizations, req[h].f.orgCode)
           IN  j # 0 /\ ~seen[h].organizations[j].subscription.active

\* the transition timestamps a request may carry under its status
StampsAgree(r) ==
    /\ r.approvedAt # NullDate => r.status = "approved"
    /\ r.rejectedAt # NullDate => r.status = "rejected"

Within(t, t1, t2) ==
    ~Before(t, t1) /\ ~Before(t2, t)

(***************************************************************************)
(* C13.  Approval overwrites: when approve reaches its save for a request  *)
(* whose organization has an active subscription, the new startDate is a   *)
(* clock reading of this call and the new endDate is a clock reading of    *)
(* this call plus the tier's days (7 for tier 0, 30*N for tier N),         *)
(* whatever the previous startDate, endDate and tier were.                 *)
(***************************************************************************)
C13_ApprovalOverwrites ==
    [][\A h \in Handlers :
        Runs(h, "approve") =>
            LET d == seen'[h]
                i == FindRequest(d.requests, req'[h].id)
                j == IF i = 0 THEN 0 ELSE FindOrg(d.organizations, d.requests[i].orgCode)
            IN  (i # 0 /\ j # 0 /\ d.organizations[j].subscription.active) =>
                    LET n    == d.requests[i].selectedTier
                        days == IF n = 0 THEN 7 ELSE 30 * n
                        sub  == snap'[h].organizations[j].subscription
                        s    == ParseDate(sub.startDate)
                        e    == ParseDate(sub.endDate)
                    IN  /\ pc'[h] = "saving"
                        /\ sub.active
                        /\ Within(ParseDate(snap'[h].requests[i].approvedAt), now, now')
                        /\ Within(s, now, now')
                        /\ Within([day |-> e.day - days, ms |-> e.ms], now, now')
      ]_vars

\* a pending request of an organization with a running window is being
\* approved, and the window ends elsewhere than before
C13_Reached ==
    \E h \in Handlers :
        /\ pc[h] = "saving" /\ req[h].op = "approve"
        /\ LET i == FindRequest(seen[h].requests, req[h].id)
               j == IF i = 0 THEN 0
                    ELSE FindOrg(seen[h].organizations, seen[h].requests[i].orgCode)
           IN  /\ i # 0 /\ j # 0
               /\ seen[h].requests[i].status = "pending"
               /\ seen[h].organizations[j].subscription.active
               /\ snap[h].organizations[j].subscription.endDate #
                      seen[h].organizations[j].subscription.endDate

\* the handler's call is an approve of a pending request whose orgCode no
\* organization carries, in the dataset the handler loaded
Orphaned(h) ==
    /\ pc[h] # "idle" /\ req[h].op = "approve"
    /\ LET i == FindRequest(seen[h].requests, req[h].id)
       IN  /\ i # 0
           /\ seen[h].requests[i].status = "pending"
           /\ CountCode(seen[h].organizations, seen[h].requests[i].orgCode) = 0

(***************************************************************************)
(* C14.  Orphaned approval: an approve of a pending request whose orgCode  *)
(* matches no organization hands to the save a dataset in which that       *)
(* request is approved with approvedAt set, every other request and the    *)
(* organizations collection exactly as loaded; it answers 200 and, its     *)
(* write completed, that dataset is the persisted one.                     *)
(***************************************************************************)
C14_OrphanedApproval ==
    \A h \in Handlers :
        Orphaned(h) =>
            LET old == seen[h].requests
                new == snap[h].requests
                i   == FindRequest(old, req[h].id)
            IN  /\ Len(new) = Len(old)
                /\ new[i].approvedAt # NullDate
                /\ new = [old EXCEPT ![i] = [@ EXCEPT !.status = "approved",
                                                      !.approvedAt = new[i].approvedAt]]
                /\ snap[h].organizations = seen[h].organizations
                /\ (pc[h] = "done" /\ faults = 0) =>
                        /\ resp[h] = 200
                        /\ file.state = "json" => committed = snap[h]

\* an orphaned approval has been written and answered
C14_Reached ==
    \E h \in Handlers :
        Orphaned(h) /\ pc[h] = "done" /\ resp[h] = 200 /\ committed = snap[h]

\* the uploaded document lacks a top-level key
LacksKey(doc) ==
    ~doc.hasOrganizations \/ ~doc.hasRequests

\* the uploaded document holds both collections
HoldsBoth(doc) ==
    /\ doc.hasOrganizations /\ ~doc.nullOrganizations
    /\ doc.hasRequests /\ ~doc.nullRequests

(***************************************************************************)
(* C15.  Import validates before replacing and replaces totally: an import *)
(* of a document that lacks the organizations key or the requests key is   *)
(* answered 400 and hands nothing to the save; an import of a document     *)
(* that holds both collections hands to the save exactly the document's    *)
(* two collections, answers 200 and, its write completed, leaves exactly   *)
(* them persisted.                                                         *)
(***************************************************************************)
C15_ImportValidatesAndReplaces ==
    \A h \in Handlers :
        (pc[h] # "idle" /\ req[h].op = "import") =>
            /\ LacksKey(req[h].doc) =>
                    pc[h] = "done" /\ resp[h] = 400 /\ snap[h] = EmptyData
            /\ HoldsBoth(req[h].doc) =>
                    /\ pc[h] \in {"saving", "writing", "done"}
                    /\ snap[h].organizations = req[h].doc.organizations
                    /\ snap[h].requests = req[h].doc.requests
                    /\ (pc[h] = "done" /\ faults = 0) =>
                            /\ resp[h] = 200
                            /\ file.state = "json" => committed = snap[h]

\* a backup made elsewhere has replaced the dataset
C15_Reached ==
    \E h \in Handlers :
        /\ pc[h] = "done" /\ req[h].op = "import" /\ resp[h] = 200
        /\ HoldsBoth(req[h].doc)
        /\ req[h].doc.organizations = <<ImportedOrg>>
        /\ committed.organizations = <<ImportedOrg>> /\ committed.requests = <<>>

(***************************************************************************)
(* C16.  Export/import round trip: whenever an export is served while      *)
(* data.json holds the dataset, the document it answers with holds both    *)
(* collections and, imported, gives that dataset again: the same           *)
(* organizations and requests, field for field and in the same order.      *)
(***************************************************************************)
C16_ExportImportRoundTrip ==
    [][\A h \in Handlers :
        (Runs(h, "export") /\ file.state = "json") =>
            LET doc == DocOf(body'[h])
            IN  /\ resp'[h] = 200 => HoldsBoth(doc)
                /\ resp'[h] = 200 => ImportedData(doc) = committed]_vars

(***************************************************************************)
(* C17.  Unknown id: an approve or a reject whose id no request of the     *)
(* loaded ledger carries is answered 404 and hands nothing to the save:    *)
(* the ledger and the organizations stay as they are.                      *)
(***************************************************************************)
C17_UnknownIdNotFound ==
    \A h \in Handlers :
        (/\ pc[h] # "idle"
         /\ req[h].op \in {"approve", "reject"}
         /\ CountId(seen[h].requests, req[h].id) = 0) =>
            pc[h] = "done" /\ resp[h] = 404 /\ snap[h] = EmptyData

\* an id of no request has been refused while the ledger holds requests
C17_Reached ==
    \E h \in Handlers :
        /\ pc[h] = "done" /\ req[h].op \in {"approve", "reject"}
        /\ req[h].id = BogusId
        /\ seen[h].requests # <<>>
        /\ resp[h] = 404

(***************************************************************************)
(* C18.  Enable: an enable of an organization of the loaded registry,      *)
(* whatever its subscription, hands to the save the loaded dataset with    *)
(* that organization's continueEnabled set to true and every other field   *)
(* and record as loaded, and answers 200; a second enable on the result    *)
(* gives the result again.                                                 *)
(***************************************************************************)
C18_EnableSetsFlagOnly ==
    \A h \in Handlers :
        (/\ pc[h] # "idle" /\ req[h].op = "enable"
         /\ CountCode(seen[h].organizations, req[h].f.orgCode) > 0) =>
            LET j == FindOrg(seen[h].organizations, req[h].f.orgCode)
            IN  /\ pc[h] \in {"saving", "writing", "done"}
                /\ snap[h] = [seen[h] EXCEPT !.organizations[j].continueEnabled = TRUE]
                /\ EnableBody(snap[h], req[h], <<now>>, variant).data = snap[h]
                /\ (pc[h] = "done" /\ faults = 0) =>
                        /\ resp[h] = 200
                        /\ file.state = "json" => committed = snap[h]

\* an organization without an active subscription has been enabled
C18_Reached ==
    \E h \in Handlers :
        /\ pc[h] = "done" /\ req[h].op = "enable" /\ resp[h] = 200
        /\ LET j == FindOrg(seen[h].organizations, req[h].f.orgCode)
           IN  /\ j # 0
               /\ ~seen[h].organizations[j].subscription.active
               /\ ~seen[h].organizations[j].continueEnabled
               /\ committed.organizations[j].continueEnabled

(***************************************************************************)
(* C19.  The save is unconditional, so an update can be lost: a call that  *)
(* reached saveData and whose write met no failure answers success, and    *)
(* the file, when it holds a document, holds that call's snapshot,         *)
(* whatever other calls have persisted since the snapshot was loaded.      *)
(***************************************************************************)
C19_SaveUnconditional ==
    \A h \in Handlers :
        (pc[h] = "done" /\ snap[h] # EmptyData /\ faults = 0) =>
            /\ resp[h] = OkStatus(req[h])
            /\ file.state = "json" => committed = snap[h]

\* Two overlapping cycles, an approve and an extend: g has just answered
\* success and its snapshot is the persisted one; h, which loaded before g
\* saved, is inside its write with a snapshot that lacks g's effect.
C19_Reached ==
    \E g, h \in Handlers :
        /\ {req[g].op, req[h].op} = {"approve", "extend"}
        /\ pc[g] = "done" /\ resp[g] = 200 /\ faults = 0
        /\ file.state = "json" /\ committed = snap[g]
        /\ pc[h] = "writing"
        /\ seen[h] # committed /\ snap[h] # committed

(***************************************************************************)
(* C20.  Only a pending request can change an organization: an approve of  *)
(* a request that the loaded ledger holds as approved or rejected leaves   *)
(* every organization of the loaded registry, its subscription (active,    *)
(* startDate, endDate, tier) and its continueEnabled, as loaded in what    *)
(* the call hands to the save.                                             *)
(***************************************************************************)
C20_OnlyPendingChangesOrg ==
    [][\A h \in Handlers :
        Runs(h, "approve") =>
            LET i == FindRequest(seen'[h].requests, req'[h].id)
            IN  (i # 0 /\ seen'[h].requests[i].status \in {"approved", "rejected"}) =>
                    (pc'[h] = "saving" =>
                        /\ Len(snap'[h].organizations) = Len(seen'[h].organizations)
                        /\ \A j \in 1..Len(seen'[h].organizations) :
                            /\ snap'[h].organizations[j].subscription =
                                    seen'[h].organizations[j].subscription
                            /\ snap'[h].organizations[j].continueEnabled =
                                    seen'[h].organizations[j].continueEnabled)]_vars

(***************************************************************************)
(* C21.  Submit never changes the organizations collection: when a submit  *)
(* that is the only saving call served so far answers, the persisted       *)
(* organizations are exactly those persisted before it, also when its load *)
(* hit a read failure.                                                     *)
(***************************************************************************)
C21_SubmitKeepsOrganizations ==
    [][\A h \in Handlers :
        (/\ req[h].op = "submit" /\ nsaves = 1
         /\ pc[h] \in {"saving", "writing"} /\ pc'[h] = "done"
         /\ file'.state = "json") =>
            committed'.organizations = committed.organizations]_vars

====
